---- MODULE Spec2Model ----
(***************************************************************************)
(* Link and image processors of pycmark's inline parser                    *)
(* (pycmark/inlineparser/link_processors.py).                              *)
(*                                                                         *)
(* The subject text is a sequence of one-character strings, the reader's   *)
(* position is the 0-based offset of the next character, and the document  *)
(* (the output stream) is a sequence of nodes.  One action stands for one  *)
(* run() of a processor, the backtrack_onerror wrapper included.           *)
(***************************************************************************)
EXTENDS Integers, Sequences, FiniteSets, TLC

VARIABLES subject, position, document, declined, entry, last

vars == <<subject, position, document, declined, entry, last>>

(***************************************************************************)
(* Bounds of the model.                                                    *)
(***************************************************************************)
MaxLen == 5

(***************************************************************************)
(* Characters and strings.                                                 *)
(***************************************************************************)
None == <<"None">>

Alphabet == {"[", "]", "!", "(", ")", "a", " "}

\* The characters of \s that the subjects of the model can hold.
Whitespace == {" ", "\n"}

\* The punctuation of ESCAPED_CHARS: the characters a backslash escapes.
\* (The grave accent, which no subject of the model holds, is left out.)
Punctuation ==
    {"!", "\"", "#", "$", "%", "&", "'", "(", ")", "*", "+", ",", ".", "/",
     ":", ";", "<", "=", ">", "?", "@", "[", "\\", "]", "^", "_", "{",
     "|", "}", "~", "-"}

Min(a, b) == IF a < b THEN a ELSE b

\* text[a:b] of Python, for 0 <= a.
Slice(text, a, b) == SubSeq(text, a + 1, Min(b, Len(text)))

\* reader.remain
Remain(text, pos) == Slice(text, pos, Len(text))

\* pattern.match(reader.remain) for a literal pattern
StartsWith(text, pos, pat) ==
    /\ pos + Len(pat) <= Len(text)
    /\ Slice(text, pos, pos + Len(pat)) = pat

\* The character at offset pos, "" past the end.
CharAt(text, pos) == IF pos < Len(text) THEN text[pos + 1] ELSE ""

\* escaped_chars_pattern.match(reader.remain): a backslash and a punctuation
IsEscaped(text, pos) ==
    /\ pos + 1 < Len(text)
    /\ text[pos + 1] = "\\"
    /\ text[pos + 2] \in Punctuation

RECURSIVE SkipChars(_, _, _)
\* The offset after the longest run of characters of set cs starting at pos.
SkipChars(text, pos, cs) ==
    IF pos < Len(text) /\ text[pos + 1] \in cs
    THEN SkipChars(text, pos + 1, cs)
    ELSE pos

(***************************************************************************)
(* pycmark.utils: unescape, entitytrans._unescape, normalize_uri and       *)
(* normalize_link_label.                                                   *)
(***************************************************************************)
RECURSIVE unescape(_)
\* Removes the backslash of every backslash escape.
unescape(s) ==
    IF s = <<>> THEN <<>>
    ELSE IF IsEscaped(s, 0) THEN <<s[2]>> \o unescape(Slice(s, 2, Len(s)))
    ELSE <<s[1]>> \o unescape(Tail(s))

RECURSIVE entity_unescape(_)
\* Decodes the entity references; &amp; stands for all of them.
entity_unescape(s) ==
    IF s = <<>> THEN <<>>
    ELSE IF StartsWith(s, 0, <<"&", "a", "m", "p", ";">>)
         THEN <<"&">> \o entity_unescape(Slice(s, 5, Len(s)))
    ELSE <<s[1]>> \o entity_unescape(Tail(s))

RECURSIVE normalize_uri(_)
\* Percent-encodes the unsafe characters.
normalize_uri(s) ==
    IF s = <<>> THEN <<>>
    ELSE (CASE s[1] = " " -> <<"%", "2", "0">>
            [] s[1] = "\"" -> <<"%", "2", "2">>
            [] s[1] = "\\" -> <<"%", "5", "C">>
            [] OTHER -> <<s[1]>>) \o normalize_uri(Tail(s))

casefold(c) == IF c = "A" THEN "a" ELSE c

RECURSIVE collapse(_, _)
\* re.sub(r'\s+', ' ', s), followed by the case folding; inws tells that the
\* previous character was whitespace.
collapse(s, inws) ==
    IF s = <<>> THEN <<>>
    ELSE IF s[1] \in Whitespace
         THEN (IF inws THEN <<>> ELSE <<" ">>) \o collapse(Tail(s), TRUE)
    ELSE <<casefold(s[1])>> \o collapse(Tail(s), FALSE)

strip(s) ==
    LET a == SkipChars(s, 0, {" "})
        t == Slice(s, a, Len(s))
        n == Len(t)
        RECURSIVE last_nonspace(_)
        last_nonspace(i) == IF i > 0 /\ t[i] = " " THEN last_nonspace(i - 1) ELSE i
    IN  SubSeq(t, 1, last_nonspace(n))

normalize_link_label(label) == strip(collapse(label, FALSE))

(***************************************************************************)
(* The sub-parsers.  Each returns whether it matched, the reader's         *)
(* position afterwards and the value it returns (None for Python's None).  *)
(***************************************************************************)
LabelMax == 1000

\* The number of characters from offset i on that are neither a bracket nor
\* a backslash, at most max.
PlainRun(text, i, max) ==
    LET stops == {k \in i..Len(text) :
                     k = Len(text) \/ text[k + 1] \in {"[", "]", "\\"}}
        first == CHOOSE k \in stops : \A m \in stops : k <= m
    IN  IF i >= Len(text) THEN 0 ELSE Min(first - i, max)

RECURSIVE LabelEnd(_, _, _)
\* LinkLabelParser.pattern matched from offset i with n items consumed: the
\* offset after the terminating "]", or -1.  The alternatives are tried in
\* the order of the pattern, as the backtracking matcher tries them.  A run
\* of plain characters is taken at once: the matcher gives its characters
\* back one by one, but what follows a shorter run is a plain character,
\* which is no escape, no backslash and no "]", so no shorter run matches.
LabelEnd(text, i, n) ==
    LET c   == CharAt(text, i)
        run == PlainRun(text, i, LabelMax - n)
        r1  == IF run > 0 THEN LabelEnd(text, i + run, n + run) ELSE -1
        r2  == IF n < LabelMax /\ IsEscaped(text, i)
               THEN LabelEnd(text, i + 2, n + 1) ELSE -1
        r3  == IF n < LabelMax /\ c = "\\"
               THEN LabelEnd(text, i + 1, n + 1) ELSE -1
    IN  IF r1 # -1 THEN r1
        ELSE IF r2 # -1 THEN r2
        ELSE IF r3 # -1 THEN r3
        ELSE IF c = "]" THEN i + 1 ELSE -1

LinkLabelParser(text, pos) ==
    LET e == LabelEnd(text, pos, 0)
    IN  IF e # -1
        THEN [matched |-> TRUE, pos |-> e, value |-> Slice(text, pos, e - 1)]
        ELSE [matched |-> FALSE, pos |-> pos, value |-> None]

RECURSIVE TitleEnd(_, _, _)
\* The body of a quoted title from offset i up to its closing character: the
\* offset after the closing character, or -1.
TitleEnd(text, i, close) ==
    LET c  == CharAt(text, i)
        r1 == IF IsEscaped(text, i) THEN TitleEnd(text, i + 2, close) ELSE -1
        r2 == IF c # "" /\ c # close THEN TitleEnd(text, i + 1, close) ELSE -1
    IN  IF r1 # -1 THEN r1
        ELSE IF r2 # -1 THEN r2
        ELSE IF c = close THEN i + 1 ELSE -1

\* The title parser removing the backslash escapes before it decodes the
\* entities
LinkTitleParser_unescape_first(text, pos) ==
    LET p     == SkipChars(text, pos, Whitespace)
        c     == CharAt(text, p)
        close == IF c = "(" THEN ")" ELSE c
        e     == IF c \in {"\"", "'", "("} THEN TitleEnd(text, p + 1, close) ELSE -1
    IN  IF e # -1
        THEN [matched |-> TRUE, pos |-> e,
              value |-> entity_unescape(unescape(Slice(text, p + 1, e - 1)))]
        ELSE [matched |-> FALSE, pos |-> pos, value |-> None]

LinkTitleParser(text, pos) ==
    LET p     == SkipChars(text, pos, Whitespace)
        c     == CharAt(text, p)
        close == IF c = "(" THEN ")" ELSE c
        e     == IF c \in {"\"", "'", "("} THEN TitleEnd(text, p + 1, close) ELSE -1
    IN  IF e # -1
        THEN [matched |-> TRUE, pos |-> e,
              value |-> unescape(entity_unescape(Slice(text, p + 1, e - 1)))]
        ELSE [matched |-> FALSE, pos |-> pos, value |-> None]

normalize_link_destination(s) == normalize_uri(unescape(entity_unescape(s)))

RECURSIVE AngleEnd(_, _)
\* The body of <...> from offset i: the offset after the ">", or -1.
AngleEnd(text, i) ==
    LET c == CharAt(text, i)
    IN  IF IsEscaped(text, i) THEN AngleEnd(text, i + 2)
        ELSE IF c # "" /\ c \notin {"<", ">", "\n", "\\"} THEN AngleEnd(text, i + 1)
        ELSE IF c = ">" THEN i + 1 ELSE -1

RECURSIVE BareEnd(_, _, _)
\* The while loop of parseBareLinkDestination from offset i at depth parens:
\* the offset at which it stops.
BareEnd(text, i, parens) ==
    IF i >= Len(text) THEN i
    ELSE LET c == text[i + 1]
         IN  IF c \in {" ", "\n"} THEN i
             ELSE IF c = "(" THEN BareEnd(text, i + 1, parens + 1)
             ELSE IF c = ")"
                  THEN (IF parens - 1 < 0 THEN i ELSE BareEnd(text, i + 1, parens - 1))
             ELSE IF IsEscaped(text, i) THEN BareEnd(text, i + 2, parens)
             ELSE BareEnd(text, i + 1, parens)

\* The bare destination parser giving the empty destination when nothing
\* remains
parseBareLinkDestination_empty(text, pos) ==
    LET start == SkipChars(text, pos, {" ", "\n"})
        end   == BareEnd(text, start, 0)
    IN  [form |-> "bare", pos |-> end, start |-> start,
         value |-> normalize_link_destination(Slice(text, start, end))]

parseBareLinkDestination(text, pos) ==
    LET start == SkipChars(text, pos, {" ", "\n"})
        end   == BareEnd(text, start, 0)
    IN  IF start >= Len(text)
        THEN [form |-> "bare", pos |-> start, start |-> start, value |-> None]
        ELSE [form |-> "bare", pos |-> end, start |-> start,
              value |-> normalize_link_destination(Slice(text, start, end))]

LinkDestinationParser(text, pos) ==
    LET p == SkipChars(text, pos, Whitespace)
        e == AngleEnd(text, p + 1)
    IN  IF CharAt(text, p) = "<"
        THEN (IF e = -1
              THEN [form |-> "angle", pos |-> pos, start |-> pos, value |-> <<>>]
              ELSE [form |-> "angle", pos |-> e, start |-> p + 1,
                    value |-> normalize_link_destination(Slice(text, p + 1, e - 1))])
        ELSE parseBareLinkDestination(text, pos)

\* LinkCloserWithDestinationProcessor.parse_link_destination; ok is FALSE
\* when the assertion on the closing parenthesis fails.
parse_link_destination(text, pos) ==
    LET d == LinkDestinationParser(text, pos)
        t == LinkTitleParser(text, d.pos)
        p == SkipChars(text, t.pos, Whitespace)
    IN  [ok |-> CharAt(text, p) = ")", pos |-> p + 1, form |-> d.form,
         start |-> d.start, end |-> d.pos,
         destination |-> d.value, title |-> t.value]

(***************************************************************************)
(* Nodes of the document.  Every node is a record of the same shape; kind  *)
(* is "Text", "bracket", "reference" or "image".                           *)
(***************************************************************************)
Node(kind, marker, can_open, active, pos, uri, title, children, text) ==
    [kind |-> kind, marker |-> marker, can_open |-> can_open, active |-> active,
     position |-> pos, uri |-> uri, title |-> title, children |-> children,
     text |-> text]

Text(s) == Node("Text", <<>>, FALSE, FALSE, 0, None, None, <<>>, s)

bracket(marker, can_open, active, pos) ==
    Node("bracket", marker, can_open, active, pos, None, None, <<>>, <<>>)

reference(refuri, reftitle, children) ==
    Node("reference", <<>>, FALSE, FALSE, 0, refuri, reftitle, children, <<>>)

image(uri, alt, title) ==
    Node("image", <<>>, FALSE, FALSE, 0, uri, title, <<>>, alt)

RECURSIVE astext(_)
\* The text of a sequence of nodes: a Text node gives its text, an element
\* the text of its children.
astext(ns) ==
    IF ns = <<>> THEN <<>>
    ELSE (IF Head(ns).kind = "Text" THEN Head(ns).text
          ELSE astext(Head(ns).children)) \o astext(Tail(ns))

\* node.replace_self(new) for the node at index i of doc; i = 0 stands for
\* a node that is no longer a child of doc, for which docutils raises.
replace_self(doc, i, new) == [doc EXCEPT ![i] = new]

\* document.remove(node) for the node at index i
remove(doc, i) == SubSeq(doc, 1, i - 1) \o SubSeq(doc, i + 1, Len(doc))

\* transplant_nodes(document, new_parent, start=opener): the nodes after
\* index start leave the document and become the children of new_parent.
transplant_nodes(doc, start) ==
    [document |-> SubSeq(doc, 1, start), moved |-> SubSeq(doc, start + 1, Len(doc))]

(***************************************************************************)
(* The reference targets the document knows (document.nameids and          *)
(* document.ids), keyed by normalized label.                               *)
(***************************************************************************)
RefTable ==
    { [label |-> <<"f", "o", "o">>, refuri |-> <<"/", "x">>, title |-> None],
      [label |-> <<"a">>, refuri |-> <<"/", "a">>, title |-> None],
      [label |-> <<"a", " ", "a">>, refuri |-> <<"/", "y">>, title |-> <<"t">>] }

(***************************************************************************)
(* LinkCloserProcessorBase                                                 *)
(***************************************************************************)
\* The indices of the brackets that can open, in document order.
get_opening_brackets(doc) ==
    {i \in 1..Len(doc) : doc[i].kind = "bracket" /\ doc[i].can_open}

\* The lookup giving the first opening bracket instead of the last
get_last_opening_brackets_first(doc) ==
    LET openers == get_opening_brackets(doc)
    IN  IF openers # {} THEN CHOOSE i \in openers : \A j \in openers : i <= j
        ELSE 0

\* The index of the last opening bracket, 0 for None.
get_last_opening_brackets(doc) ==
    LET openers == get_opening_brackets(doc)
    IN  IF openers # {} THEN CHOOSE i \in openers : \A j \in openers : j <= i
        ELSE 0

\* if title: node['title'] = title
title_attr(title) == IF title = None \/ title = <<>> THEN None ELSE title

\* create_node without the loop that deactivates the brackets before a link
create_node_keeps_active(title, destination, doc, opener) ==
    LET t == transplant_nodes(doc, opener)
    IN  IF doc[opener].marker = <<"!", "[">>
        THEN [document |-> t.document,
              node |-> image(destination, astext(t.moved), title_attr(title))]
        ELSE [document |-> t.document,
              node |-> reference(destination, title_attr(title), t.moved)]

\* create_node deactivating every opening bracket, whatever its marker
create_node_deactivates_all(title, destination, doc, opener) ==
    LET t == transplant_nodes(doc, opener)
    IN  IF doc[opener].marker = <<"!", "[">>
        THEN [document |-> t.document,
              node |-> image(destination, astext(t.moved), title_attr(title))]
        ELSE [document |->
                  [i \in 1..Len(t.document) |->
                      IF i \in get_opening_brackets(t.document)
                      THEN [t.document[i] EXCEPT !.active = FALSE]
                      ELSE t.document[i]],
              node |-> reference(destination, title_attr(title), t.moved)]

\* create_node running the deactivation loop after an image as well
create_node_deactivates_for_image(title, destination, doc, opener) ==
    LET t == transplant_nodes(doc, opener)
        d == [i \in 1..Len(t.document) |->
                 IF i \in get_opening_brackets(t.document)
                    /\ t.document[i].marker = <<"[">>
                 THEN [t.document[i] EXCEPT !.active = FALSE]
                 ELSE t.document[i]]
    IN  IF doc[opener].marker = <<"!", "[">>
        THEN [document |-> d,
              node |-> image(destination, astext(t.moved), title_attr(title))]
        ELSE [document |-> d,
              node |-> reference(destination, title_attr(title), t.moved)]

create_node(title, destination, doc, opener) ==
    LET t == transplant_nodes(doc, opener)
    IN  IF doc[opener].marker = <<"!", "[">>
        THEN [document |-> t.document,
              node |-> image(destination, astext(t.moved), title_attr(title))]
        ELSE [document |->
                  [i \in 1..Len(t.document) |->
                      IF i \in get_opening_brackets(t.document)
                         /\ t.document[i].marker = <<"[">>
                      THEN [t.document[i] EXCEPT !.active = FALSE]
                      ELSE t.document[i]],
              node |-> reference(destination, title_attr(title), t.moved)]

\* found is FALSE where the code raises LabelNotMatched.
lookup_target(refname) ==
    LET key  == normalize_link_label(refname)
        hits == {t \in RefTable : t.label = key}
    IN  IF hits = {} THEN [found |-> FALSE, refuri |-> None, title |-> None]
        ELSE LET t == CHOOSE t \in hits : TRUE
             IN  [found |-> TRUE, refuri |-> t.refuri, title |-> t.title]

(***************************************************************************)
(* The run() methods.  Each gives the outcome of one call: result is       *)
(* "commit" (returned True), "decline" (returned False) or "error" (raised *)
(* exc), with the position of the reader it worked on and the document as  *)
(* it left it.                                                             *)
(***************************************************************************)
Outcome(result, exc, pos, doc) ==
    [result |-> result, exc |-> exc, position |-> pos, document |-> doc]

\* The opener recording the position before the marker
LinkOpenerProcessor_run_position_before(text, pos, doc) ==
    LET marker == IF CharAt(text, pos) = "!" THEN <<"!", "[">> ELSE <<"[">>
        after  == pos + Len(marker)
    IN  Outcome("commit", "", after, Append(doc, bracket(marker, TRUE, TRUE, pos)))

LinkOpenerProcessor_run(text, pos, doc) ==
    LET marker == IF CharAt(text, pos) = "!" THEN <<"!", "[">> ELSE <<"[">>
        after  == pos + Len(marker)
    IN  Outcome("commit", "", after, Append(doc, bracket(marker, TRUE, TRUE, after)))

\* The unmatched closer leaving the inactive opener in the document
UnmatchedLinkCloserProcessor_run_keeps_opener(text, pos, doc) ==
    LET opener == get_last_opening_brackets(doc)
    IN  IF opener = 0 \/ ~doc[opener].active
        THEN Outcome("commit", "", pos + 1, Append(doc, Text(<<"]">>)))
        ELSE Outcome("decline", "", pos, doc)

\* The unmatched closer passing an inactive opener on to the other closers
UnmatchedLinkCloserProcessor_run_passes_inactive(text, pos, doc) ==
    LET opener == get_last_opening_brackets(doc)
    IN  IF opener = 0
        THEN Outcome("commit", "", pos + 1, Append(doc, Text(<<"]">>)))
        ELSE Outcome("decline", "", pos, doc)

\* The unmatched closer without reader.step(1)
UnmatchedLinkCloserProcessor_run_no_step(text, pos, doc) ==
    LET opener == get_last_opening_brackets(doc)
    IN  IF opener = 0
        THEN Outcome("commit", "", pos, Append(doc, Text(<<"]">>)))
        ELSE IF ~doc[opener].active
        THEN Outcome("commit", "", pos,
                     Append(replace_self(doc, opener, Text(doc[opener].marker)),
                            Text(<<"]">>)))
        ELSE Outcome("decline", "", pos, doc)

UnmatchedLinkCloserProcessor_run(text, pos, doc) ==
    LET opener == get_last_opening_brackets(doc)
    IN  IF opener = 0
        THEN Outcome("commit", "", pos + 1, Append(doc, Text(<<"]">>)))
        ELSE IF ~doc[opener].active
        THEN Outcome("commit", "", pos + 1,
                     Append(replace_self(doc, opener, Text(doc[opener].marker)),
                            Text(<<"]">>)))
        ELSE Outcome("decline", "", pos, doc)

\* The new node appended without document.remove(opener)
AddNode_keeps_opener(title, destination, doc, opener) ==
    LET c == create_node(title, destination, doc, opener)
    IN  Append(c.document, c.node)

\* document += self.create_node(...); document.remove(opener)
AddNode(title, destination, doc, opener) ==
    LET c == create_node(title, destination, doc, opener)
    IN  remove(Append(c.document, c.node), opener)

\* The closer with a destination replacing the opener when the parse fails,
\* as the other closers do when the label is not found
LinkCloserWithDestinationProcessor_run_replaces(text, pos, doc) ==
    LET opener == get_last_opening_brackets(doc)
        p      == parse_link_destination(text, pos + 2)
    IN  IF opener = 0 THEN Outcome("decline", "", pos, doc)
        ELSE IF ~p.ok
        THEN Outcome("error", "AssertionError", p.pos,
                     replace_self(doc, opener, Text(doc[opener].marker)))
        ELSE Outcome("commit", "", p.pos, AddNode(p.title, p.destination, doc, opener))

\* The closer with a destination without the assertion on the closing
\* parenthesis
LinkCloserWithDestinationProcessor_run_no_assert(text, pos, doc) ==
    LET opener == get_last_opening_brackets(doc)
        p      == parse_link_destination(text, pos + 2)
    IN  IF opener = 0 THEN Outcome("decline", "", pos, doc)
        ELSE Outcome("commit", "", IF p.ok THEN p.pos ELSE p.end,
                     AddNode(p.title, p.destination, doc, opener))

LinkCloserWithDestinationProcessor_run(text, pos, doc) ==
    LET opener == get_last_opening_brackets(doc)
        p      == parse_link_destination(text, pos + 2)
    IN  IF opener = 0 THEN Outcome("decline", "", pos, doc)
        ELSE IF ~p.ok THEN Outcome("error", "AssertionError", p.pos, doc)
        ELSE Outcome("commit", "", p.pos, AddNode(p.title, p.destination, doc, opener))

\* LinkCloserWithLabelProcessor.parse_link_label: the name it looks up, None
\* when the label pattern did not match.
parse_link_label(text, pos, doc, opener) ==
    LET l == LinkLabelParser(text, pos)
    IN  [pos |-> l.pos,
         refname |-> IF l.value = <<>>
                     THEN Slice(text, doc[opener].position, l.pos - 2)
                     ELSE l.value]

\* The reference form taking a label that did not match the pattern for a
\* label that is not defined
LinkCloserWithLabelProcessor_run_none_not_found(text, pos, doc) ==
    LET opener == get_last_opening_brackets(doc)
        l      == parse_link_label(text, pos + 2, doc, opener)
        target == lookup_target(l.refname)
    IN  IF opener = 0 THEN Outcome("decline", "", pos, doc)
        ELSE IF l.refname = None \/ ~target.found
        THEN Outcome("error", "LabelNotMatched", l.pos,
                     replace_self(doc, opener, Text(doc[opener].marker)))
        ELSE Outcome("commit", "", l.pos,
                     AddNode(target.title, target.refuri, doc, opener))

LinkCloserWithLabelProcessor_run(text, pos, doc) ==
    LET opener == get_last_opening_brackets(doc)
        l      == parse_link_label(text, pos + 2, doc, opener)
        target == lookup_target(l.refname)
    IN  IF opener = 0 THEN Outcome("decline", "", pos, doc)
        ELSE IF l.refname = None THEN Outcome("error", "TypeError", l.pos, doc)
        ELSE IF ~target.found
        THEN Outcome("error", "LabelNotMatched", l.pos,
                     replace_self(doc, opener, Text(doc[opener].marker)))
        ELSE Outcome("commit", "", l.pos,
                     AddNode(target.title, target.refuri, doc, opener))

\* LinkCloserProcessor.process_link_or_image: the target of the text between
\* the opener and the closing bracket.
process_link_or_image(text, pos, doc, opener) ==
    lookup_target(Slice(text, doc[opener].position, pos - 1))

\* The shortcut closer replacing the opener by "[" whatever its marker
LinkCloserProcessor_run_bracket_text(text, pos, doc) ==
    LET opener == get_last_opening_brackets(doc)
        target == process_link_or_image(text, pos + 1, doc, opener)
    IN  IF opener = 0 THEN Outcome("decline", "", pos, doc)
        ELSE IF ~target.found
        THEN Outcome("error", "ValueError", pos + 1,
                     replace_self(doc, opener, Text(<<"[">>)))
        ELSE Outcome("commit", "", pos + 1,
                     AddNode(target.title, target.refuri, doc, opener))

\* The shortcut closer leaving the opener when the label is not found
LinkCloserProcessor_run_keeps_opener(text, pos, doc) ==
    LET opener == get_last_opening_brackets(doc)
        target == process_link_or_image(text, pos + 1, doc, opener)
    IN  IF opener = 0 THEN Outcome("decline", "", pos, doc)
        ELSE IF ~target.found
        THEN Outcome("error", "LabelNotMatched", pos + 1, doc)
        ELSE Outcome("commit", "", pos + 1,
                     AddNode(target.title, target.refuri, doc, opener))

\* When the label is not found, process_link_or_image replaces the opener
\* and re-raises; run() then calls replace_self on the detached opener, which
\* raises ValueError and leaves the document as it is.
LinkCloserProcessor_run(text, pos, doc) ==
    LET opener == get_last_opening_brackets(doc)
        target == process_link_or_image(text, pos + 1, doc, opener)
    IN  IF opener = 0 THEN Outcome("decline", "", pos, doc)
        ELSE IF ~target.found
        THEN Outcome("error", "ValueError", pos + 1,
                     replace_self(doc, opener, Text(doc[opener].marker)))
        ELSE Outcome("commit", "", pos + 1,
                     AddNode(target.title, target.refuri, doc, opener))

(***************************************************************************)
(* The subjects the parser is run on: every string over Alphabet of at     *)
(* most MaxLen characters, and the sample inputs below.                    *)
(***************************************************************************)
S_LinkInLink == <<"[", "a", "[", "b", "]", "(", "u", "1", ")", "c", "]", "(", "u", "2", ")">>

S_LinkInImage == <<"!", "[", "a", "[", "b", "]", "(", "u", "1", ")", "c", "]", "(", "u", "2", ")">>

S_Shortcut == <<"[", "f", "o", "o", "]">>

S_Collapsed == <<"[", "f", "o", "o", "]", "[", "]">>

S_Unresolvable == <<"[", "b", "a", "r", "]">>

S_UnresolvableImage == <<"!", "[", "b", "a", "r", "]">>

S_Balanced == <<"[", "x", "]", "(", "a", "(", "b", ")", "c", ")">>

S_Unclosed == <<"[", "x", "]", "(", "a", "(", "b", ")">>

S_UnclosedSpace == <<"[", "x", "]", "(", "a", "(", " ", ")">>

S_EscapedParen == <<"[", "x", "]", "(", "a", "\\", ")", ")">>

S_Angle == <<"[", "x", "]", "(", "<", "a", " ", "b", ">", ")">>

S_Title == <<"[", "x", "]", "(", "u", " ", "\"", "t", "\"", ")">>

S_FullReference == <<"[", "x", "]", "[", "F", "o", "o", "]">>

S_FullUnknown == <<"[", "[", "a", "]", "[", "b", "a", "r", "]">>

S_InactiveThenDest == <<"[", "[", "a", "]", "(", "u", ")", "b", "]", "(", "v", ")">>

S_ImageInLink == <<"[", "!", "[", "a", "]", "(", "u", ")", "]", "(", "v", ")">>

S_Content == <<"a", "[", "b", "!", "[", "c", "]", "(", "u", ")", "d", "]", "(", "v", ")">>

S_OpenerAfterLink == <<"[", "[", "a", "]", "(", "u", ")", "!", "[", "b">>

S_Deactivate == <<"[", "!", "[", "[", "a", "]", "(", "u", ")">>

S_InactiveShortcut == <<"[", "[", "a", "]", "(", "u", ")", "[", "a", "]", "[", "z", "z", "]">>

Samples ==
    {S_LinkInLink,
     S_LinkInImage,
     S_Shortcut,
     S_Collapsed,
     S_Unresolvable,
     S_UnresolvableImage,
     S_Balanced,
     S_Unclosed,
     S_UnclosedSpace,
     S_EscapedParen,
     S_Angle,
     S_Title,
     S_FullReference,
     S_FullUnknown,
     S_InactiveThenDest,
     S_ImageInLink,
     S_Content,
     S_OpenerAfterLink,
     S_Deactivate,
     S_InactiveShortcut}

Subjects == UNION {[1..n -> Alphabet] : n \in 0..MaxLen} \cup Samples

(***************************************************************************)
(* The parser loop.  The processors whose pattern matches at the reader's  *)
(* position are tried in the order of their priority: the unmatched closer *)
(* (100), the closers with a destination or a label (400), the openers and *)
(* the shortcut closer (default priority).  declined holds the processors  *)
(* that have returned False at the current position; when all have, the    *)
(* character becomes literal text.                                         *)
(***************************************************************************)
Opener == "LinkOpenerProcessor"

Unmatched == "UnmatchedLinkCloserProcessor"

WithDestination == "LinkCloserWithDestinationProcessor"

WithLabel == "LinkCloserWithLabelProcessor"

Shortcut == "LinkCloserProcessor"

Literal == "Literal"

Init ==
    /\ subject \in Subjects
    /\ position = 0
    /\ document = <<>>
    /\ declined = {}
    /\ entry = <<>>
    /\ last = [proc |-> "none", result |-> "none", exc |-> "", position |-> 0,
               document |-> <<>>, entry |-> <<>>]

\* backtrack_onerror: the wrapped run() works on a copy of the reader, and
\* the reader takes the copy's position only when run() returned True; an
\* exception makes the wrapper return False.  The document is the one run()
\* left.
backtrack_onerror(r, pos) ==
    [result |-> IF r.result = "commit" THEN "commit" ELSE "decline",
     exc |-> r.exc,
     position |-> IF r.result = "commit" THEN r.position ELSE pos,
     document |-> r.document]

\* One processor run seen from the loop: r is what the run gave, taken
\* once.  entry is the document as it was when the reader arrived at its
\* position, and last records the run: the processor, what it returned, and
\* the position, the document and the entry it started from.
Step(proc, r) ==
    \E o \in {r} :
       /\ position' = o.position
       /\ document' = o.document
       /\ declined' = IF o.result = "commit" THEN {} ELSE declined \cup {proc}
       /\ entry' = IF o.result = "commit" THEN o.document ELSE entry
       /\ last' = [proc |-> proc, result |-> o.result, exc |-> o.exc,
                   position |-> position, document |-> document, entry |-> entry]
       /\ UNCHANGED subject

\* Whether the loop runs processor proc next: its pattern matches at the
\* position and every processor before it in the order has declined.
CanRun(proc) ==
    CASE proc = Opener ->
            \/ StartsWith(subject, position, <<"[">>)
            \/ StartsWith(subject, position, <<"!", "[">>)
      [] proc = Unmatched ->
            /\ StartsWith(subject, position, <<"]">>)
            /\ Unmatched \notin declined
      [] proc = WithDestination ->
            /\ StartsWith(subject, position, <<"]", "(">>)
            /\ Unmatched \in declined
            /\ WithDestination \notin declined
      [] proc = WithLabel ->
            /\ StartsWith(subject, position, <<"]", "[">>)
            /\ Unmatched \in declined
            /\ WithLabel \notin declined
      [] proc = Shortcut ->
            /\ StartsWith(subject, position, <<"]">>)
            /\ Unmatched \in declined
            /\ StartsWith(subject, position, <<"]", "(">>) => WithDestination \in declined
            /\ StartsWith(subject, position, <<"]", "[">>) => WithLabel \in declined
            /\ Shortcut \notin declined
      [] proc = Literal ->
            /\ position < Len(subject)
            /\ ~StartsWith(subject, position, <<"[">>)
            /\ ~StartsWith(subject, position, <<"!", "[">>)
            /\ StartsWith(subject, position, <<"]">>) => Shortcut \in declined

LinkOpenerProcessor ==
    /\ CanRun(Opener)
    /\ Step(Opener, LinkOpenerProcessor_run(subject, position, document))

UnmatchedLinkCloserProcessor ==
    /\ CanRun(Unmatched)
    /\ Step(Unmatched, UnmatchedLinkCloserProcessor_run(subject, position, document))

LinkCloserWithDestinationProcessor ==
    /\ CanRun(WithDestination)
    /\ \E r \in {LinkCloserWithDestinationProcessor_run(subject, position, document)} :
          Step(WithDestination, backtrack_onerror(r, position))

LinkCloserWithLabelProcessor ==
    /\ CanRun(WithLabel)
    /\ \E r \in {LinkCloserWithLabelProcessor_run(subject, position, document)} :
          Step(WithLabel, backtrack_onerror(r, position))

LinkCloserProcessor ==
    /\ CanRun(Shortcut)
    /\ \E r \in {LinkCloserProcessor_run(subject, position, document)} :
          Step(Shortcut, backtrack_onerror(r, position))

\* No processor took the character: it becomes literal text.
LiteralText ==
    /\ CanRun(Literal)
    /\ Step(Literal,
            Outcome("commit", "", position + 1,
                    Append(document, Text(<<subject[position + 1]>>))))

Next ==
    \/ LinkOpenerProcessor
    \/ UnmatchedLinkCloserProcessor
    \/ LinkCloserWithDestinationProcessor
    \/ LinkCloserWithLabelProcessor
    \/ LinkCloserProcessor
    \/ LiteralText

Spec == Init /\ [][Next]_vars

\* The loop runs to the end of the text: it does not stop while a processor
\* or the literal fallback can run.
FairLen == 3

FairAlphabet == {"[", "]", "(", ")", "a", " "}

FairSubjects ==
    UNION {[1..n -> FairAlphabet] : n \in 0..FairLen}
    \cup {S_ImageInLink, S_InactiveThenDest, S_FullReference, S_InactiveShortcut}

FairInit ==
    /\ subject \in FairSubjects
    /\ position = 0
    /\ document = <<>>
    /\ declined = {}
    /\ entry = <<>>
    /\ last = [proc |-> "none", result |-> "none", exc |-> "", position |-> 0,
               document |-> <<>>, entry |-> <<>>]

FairSpec == FairInit /\ [][Next]_vars /\ WF_vars(Next)

(***************************************************************************)
(* Vocabulary of the properties.                                           *)
(***************************************************************************)
Closers == {WithDestination, WithLabel, Shortcut}

Committed(proc) == last.proc = proc /\ last.result = "commit"

Failed(proc) == last.proc = proc /\ last.result = "decline"

AtEnd == position >= Len(subject)

Markers(doc) == {i \in 1..Len(doc) : doc[i].kind = "bracket"}

RECURSIVE HasReference(_)
\* A reference node among the nodes ns or their descendants.
HasReference(ns) ==
    /\ ns # <<>>
    /\ \/ Head(ns).kind = "reference"
       \/ HasReference(Head(ns).children)
       \/ HasReference(Tail(ns))

\* The opener a closer finds in the document of the last run, and the
\* literal text node for it.
LastOpener == get_last_opening_brackets(last.document)

LiteralOf(doc, i) == Text(doc[i].marker)

\* The label was not found: LabelNotMatched left the reference form, or the
\* shortcut form after it handled LabelNotMatched.
LabelNotFound == last.exc \in {"LabelNotMatched", "ValueError"}

(***************************************************************************)
(* C1  No link-in-link: in every reachable state no reference node of the  *)
(* document has a reference node among its descendants, and the parse of   *)
(* [a[b](u1)c](u2) ends with the literal "[", "a", the link to u1 around   *)
(* "b", "c" and the literal "]" as siblings, followed by the literal       *)
(* characters of (u2).                                                     *)
(***************************************************************************)
C1_NoLinkInLink ==
    /\ \A i \in 1..Len(document) :
          document[i].kind = "reference" => ~HasReference(document[i].children)
    /\ (subject = S_LinkInLink /\ AtEnd) =>
          document = <<Text(<<"[">>), Text(<<"a">>),
                       reference(<<"u", "1">>, None, <<Text(<<"b">>)>>),
                       Text(<<"c">>), Text(<<"]">>), Text(<<"(">>),
                       Text(<<"u">>), Text(<<"2">>), Text(<<")">>)>>

C1_Witness ==
    /\ subject = S_LinkInLink
    /\ AtEnd
    /\ \E i \in 1..Len(document) : document[i].kind = "reference"

(***************************************************************************)
(* C2  As claimed: whenever a closer with a destination, with a label or   *)
(* the shortcut closer has declined or failed, the position and the        *)
(* document are those it started from.                                     *)
(***************************************************************************)
C2_NoResidue ==
    \A h \in Closers :
        Failed(h) => position = last.position /\ document = last.document

(***************************************************************************)
(* C2 amended: whenever one of these closers has declined or failed, the   *)
(* position is the one it started from; the document is the one it started *)
(* from unless the label was not found, and then it differs only in that   *)
(* the nearest opener has been replaced in place by the text of its        *)
(* marker.                                                                 *)
(***************************************************************************)
C2_ResidueOnlyOnLabelNotFound ==
    \A h \in Closers :
        Failed(h) =>
            /\ position = last.position
            /\ ~LabelNotFound => document = last.document
            /\ LabelNotFound =>
                  /\ LastOpener # 0
                  /\ document = [last.document EXCEPT
                                    ![LastOpener] = LiteralOf(last.document, LastOpener)]

C2_Witness ==
    /\ Failed(WithLabel)
    /\ LabelNotFound
    /\ document # last.document
    /\ position = last.position

(***************************************************************************)
(* C3  Collapsed reference: whenever the closer with a label has run on a  *)
(* collapsed reference "][]", it left the document the shortcut closer     *)
(* leaves when run from the same position on the same document, so that    *)
(* [foo][] gives the link [foo] gives.                                     *)
(***************************************************************************)
C3_CollapsedSameAsShortcut ==
    /\ (last.proc = WithLabel /\ StartsWith(subject, last.position, <<"]", "[", "]">>)) =>
          document = LinkCloserProcessor_run(subject, last.position, last.document).document
    /\ (subject = S_Collapsed /\ AtEnd) =>
          document = <<reference(<<"/", "x">>, None,
                                 <<Text(<<"f">>), Text(<<"o">>), Text(<<"o">>)>>)>>

(***************************************************************************)
(* C4  Link-in-image: every "![" marker of the document is active in every *)
(* reachable state, and the parse of ![a[b](u1)c](u2) ends with one image  *)
(* of destination u2 and alternative text abc.                             *)
(***************************************************************************)
C4_LinkInImage ==
    /\ \A i \in Markers(document) :
          document[i].marker = <<"!", "[">> => document[i].active
    /\ (subject = S_LinkInImage /\ AtEnd) =>
          document = <<image(<<"u", "2">>, <<"a", "b", "c">>, None)>>

C4_Witness ==
    /\ subject = S_LinkInImage
    /\ AtEnd
    /\ Committed(WithDestination)
    /\ HasReference(last.document)

(***************************************************************************)
(* C5  Unresolvable reference: whenever the shortcut closer has failed, it *)
(* returned False, the position is the one before the "]", the document is *)
(* the one it started from with the nearest opener replaced in place by    *)
(* the text of its marker (so no link or image was made); and a parse that *)
(* ends with nothing but text nodes ends with the text of the input.       *)
(***************************************************************************)
C5_UnresolvableIsLiteral ==
    /\ (Failed(Shortcut) /\ LastOpener # 0) =>
          /\ position = last.position
          /\ CharAt(subject, position) = "]"
          /\ document = [last.document EXCEPT
                            ![LastOpener] = LiteralOf(last.document, LastOpener)]
          /\ document[LastOpener].text \in {<<"[">>, <<"!", "[">>}
          /\ document[LastOpener].text =
                Slice(subject, last.document[LastOpener].position
                                  - Len(document[LastOpener].text),
                      last.document[LastOpener].position)
    /\ (AtEnd /\ \A i \in 1..Len(document) : document[i].kind = "Text") =>
          astext(document) = subject

C5_Witness ==
    /\ subject = S_UnresolvableImage
    /\ AtEnd
    /\ astext(document) = subject
    /\ Len(document) = 5

(***************************************************************************)
(* C6  Unmatched-bracket fast path: when the reader arrives at a "]" and   *)
(* the document holds no opening bracket, or the last one is inactive,     *)
(* the unmatched closer is the only processor that can run; and whenever   *)
(* it has run on such a document it returned True, moved the position by   *)
(* one, replaced the inactive opener by the text of its marker and         *)
(* appended the text "]", making no link or image, whatever follows.       *)
(***************************************************************************)
FastPath(doc) ==
    LET opener == get_last_opening_brackets(doc)
    IN  opener = 0 \/ ~doc[opener].active

C6_UnmatchedFastPath ==
    /\ (last.proc = Unmatched /\ FastPath(last.document)) =>
          /\ last.result = "commit"
          /\ position = last.position + 1
          /\ document =
                Append(IF LastOpener = 0 THEN last.document
                       ELSE [last.document EXCEPT
                                ![LastOpener] = LiteralOf(last.document, LastOpener)],
                       Text(<<"]">>))
    /\ (StartsWith(subject, position, <<"]">>) /\ declined = {} /\ FastPath(document)) =>
          /\ ENABLED UnmatchedLinkCloserProcessor
          /\ ~ENABLED LinkCloserWithDestinationProcessor
          /\ ~ENABLED LinkCloserWithLabelProcessor
          /\ ~ENABLED LinkCloserProcessor
          /\ ~ENABLED LiteralText

C6_Witness ==
    /\ subject = S_InactiveThenDest
    /\ Committed(Unmatched)
    /\ LastOpener # 0
    /\ StartsWith(subject, position, <<"(", "v", ")">>)

(***************************************************************************)
(* C7  Balanced bare destination: whenever the closer with a destination   *)
(* has committed with a bare destination, the unescaped parentheses of the *)
(* destination text are balanced, and the character after it is not part   *)
(* of it; [x](a(b)c) ends as one link to a(b)c.                            *)
(***************************************************************************)
RECURSIVE Depth(_, _, _)
\* The depth of the unescaped parentheses of s after offset i, starting from
\* depth d; -1 as soon as a ")" has no "(" before it.
Depth(s, i, d) ==
    IF d < 0 THEN -1
    ELSE IF i >= Len(s) THEN d
    ELSE IF IsEscaped(s, i) THEN Depth(s, i + 2, d)
    ELSE IF s[i + 1] = "(" THEN Depth(s, i + 1, d + 1)
    ELSE IF s[i + 1] = ")" THEN Depth(s, i + 1, d - 1)
    ELSE Depth(s, i + 1, d)

C7_BalancedBareDestination ==
    /\ Committed(WithDestination) =>
          LET p == parse_link_destination(subject, last.position + 2)
          IN  p.form = "bare" => Depth(Slice(subject, p.start, p.end), 0, 0) = 0
    /\ (subject = S_Balanced /\ AtEnd) =>
          document = <<reference(<<"a", "(", "b", ")", "c">>, None, <<Text(<<"x">>)>>)>>

C9_NodeConstruction ==
    \A h \in Closers :
        Committed(h) =>
            LET o     == LastOpener
                after == SubSeq(last.document, o + 1, Len(last.document))
            IN  /\ o # 0
                /\ Len(document) = o
                /\ \A i \in 1..(o - 1) :
                      [document[i] EXCEPT !.active = FALSE]
                          = [last.document[i] EXCEPT !.active = FALSE]
                /\ IF last.document[o].marker = <<"!", "[">>
                   THEN /\ document[o].kind = "image"
                        /\ document[o].text = astext(after)
                        /\ document[o].children = <<>>
                   ELSE /\ document[o].kind = "reference"
                        /\ document[o].children = after

C9_Witness ==
    /\ Committed(WithDestination)
    /\ LastOpener > 1
    /\ Len(last.document) > LastOpener + 1
    /\ document[LastOpener].kind = "reference"

(***************************************************************************)
(* C10  Opener: whenever the opener has run, it returned True, the         *)
(* position has moved by the length of the marker ("[" or "![") that was   *)
(* at the position, and the document is the one before with one bracket    *)
(* appended: that marker, can_open and active, its position the position   *)
(* of the reader after the marker.                                         *)
(***************************************************************************)
C10_Opener ==
    last.proc = Opener =>
        LET marker == IF StartsWith(subject, last.position, <<"!", "[">>)
                      THEN <<"!", "[">> ELSE <<"[">>
        IN  /\ last.result = "commit"
            /\ StartsWith(subject, last.position, marker)
            /\ position = last.position + Len(marker)
            /\ document = Append(last.document, bracket(marker, TRUE, TRUE, position))

C10_Witness ==
    /\ last.proc = Opener
    /\ position = last.position + 2
    /\ \E i \in Markers(last.document) : ~last.document[i].active


\* The bracket of the document doc that is nearest to its end, 0 if none.
NearestMarker(doc) ==
    IF Markers(doc) = {} THEN 0
    ELSE CHOOSE i \in Markers(doc) : \A j \in Markers(doc) : j <= i

(***************************************************************************)
(* C11  Deactivation after a link: whenever a closer has committed against *)
(* a "[" opener, every "[" bracket of the document is inactive and every   *)
(* "![" bracket has the active flag it had; whenever a closer has          *)
(* committed against a "![" opener, the nodes before the image are the     *)
(* nodes that were before the opener, flags included.                      *)
(***************************************************************************)
C11_DeactivationAfterLink ==
    \A h \in Closers :
        Committed(h) =>
            LET o == NearestMarker(last.document)
            IN  IF last.document[o].marker = <<"[">>
                THEN \A i \in Markers(document) :
                        /\ document[i].marker = <<"[">> => ~document[i].active
                        /\ document[i].marker = <<"!", "[">> =>
                              document[i].active = last.document[i].active
                ELSE SubSeq(document, 1, o - 1) = SubSeq(last.document, 1, o - 1)

C11_Witness ==
    /\ subject = S_Deactivate
    /\ Committed(WithDestination)
    /\ \E i \in Markers(document) : document[i].marker = <<"[">> /\ ~document[i].active
    /\ \E i \in Markers(document) : document[i].marker = <<"!", "[">> /\ document[i].active


C13_StructuralFailureFallsThrough ==
    /\ last.proc = WithDestination =>
          LET p == parse_link_destination(subject, last.position + 2)
              o == NearestMarker(document)
          IN  /\ ~p.ok <=> last.result = "decline"
              /\ ~p.ok =>
                    /\ position = last.position
                    /\ document = last.document
                    /\ o # 0
                    /\ document[o].active
                    /\ \A proc \in {Opener, Unmatched, WithDestination, WithLabel,
                                     Shortcut, Literal} :
                          CanRun(proc) <=> proc = Shortcut
    /\ (last.proc = Shortcut /\ StartsWith(subject, last.position, <<"]", "(">>)) =>
          last.document = last.entry

C13_Witness ==
    /\ subject = S_Unclosed
    /\ Failed(WithDestination)
    /\ last.exc = "AssertionError"


(***************************************************************************)
(* The reference form on its own: the reader stands on the "]" of "[a]" or *)
(* "![a]", the unmatched closer has declined, and what follows "][" is any *)
(* text of at most LabelLen characters, or a label one character longer    *)
(* than the pattern allows.                                                *)
(***************************************************************************)
LabelLen == 4

LabelAlphabet == {"[", "]", "\\", "a"}

\* A label of LabelMax + 1 characters and its closing bracket.
S_LongLabel == [i \in 1..(LabelMax + 1) |-> "a"] \o <<"]">>

LabelSubjects ==
    {prefix \o rest :
        prefix \in {<<"[", "a", "]", "[">>, <<"!", "[", "a", "]", "[">>},
        rest \in UNION {[1..n -> LabelAlphabet] : n \in 0..LabelLen}
                 \cup {S_LongLabel}}

LabelInit ==
    /\ subject \in LabelSubjects
    /\ LET open == LinkOpenerProcessor_run(subject, 0, <<>>)
           doc  == Append(open.document, Text(<<"a">>))
       IN  /\ position = open.position + 1
           /\ document = doc
           /\ declined = {Unmatched}
           /\ entry = doc
           /\ last = [proc |-> Unmatched, result |-> "decline", exc |-> "",
                      position |-> open.position + 1, document |-> doc,
                      entry |-> doc]

LabelNext ==
    \/ LinkCloserWithLabelProcessor
    \/ LinkCloserProcessor

LabelSpec == LabelInit /\ [][LabelNext]_vars

(***************************************************************************)
(* C14  A label that does not match the pattern is a parse failure: when   *)
(* the reference form has run and the text after "][" has no terminating   *)
(* "]" or more than LabelMax label characters, the attempt was declined    *)
(* with TypeError and not with LabelNotMatched, the position and the       *)
(* document are as before, the nearest marker is still an active bracket,  *)
(* and the shortcut form is the one processor the loop runs next; the      *)
(* shortcut form then starts from the document the reader arrived with and *)
(* uses that same opener.  A label that matches never gives TypeError.     *)
(***************************************************************************)
C14_LabelMissFallsThrough ==
    /\ last.proc = WithLabel =>
          LET l == LinkLabelParser(subject, last.position + 2)
              o == NearestMarker(document)
          IN  /\ ~l.matched <=> last.exc = "TypeError"
              /\ ~l.matched =>
                    /\ last.result = "decline"
                    /\ position = last.position
                    /\ document = last.document
                    /\ o # 0
                    /\ document[o].active
                    /\ \A proc \in {Opener, Unmatched, WithDestination, WithLabel,
                                     Shortcut, Literal} :
                          CanRun(proc) <=> proc = Shortcut
    /\ (/\ last.proc = Shortcut
        /\ StartsWith(subject, last.position, <<"]", "[">>)
        /\ ~LinkLabelParser(subject, last.position + 2).matched) =>
          LET o == NearestMarker(last.document)
          IN  /\ last.document = last.entry
              /\ o # 0
              /\ last.document[o].active
              /\ o > Len(document) \/ document[o] # last.document[o]

\* The reference form has declined a label of more than LabelMax characters.
C14_Witness ==
    /\ Failed(WithLabel)
    /\ last.exc = "TypeError"
    /\ Len(subject) > LabelMax
    /\ subject[Len(subject)] = "]"


\* Nothing but spaces and newlines from offset pos to the end of the text.
NothingRemains(text, pos) ==
    \A k \in (pos + 1)..Len(text) : text[k] \in {" ", "\n"}

(***************************************************************************)
(* C15  An absent destination never produces a node: whenever the inline   *)
(* form has run and its destination is a bare one, the destination is None *)
(* exactly when nothing but spaces and newlines remains after "](" ; with  *)
(* a None destination the attempt failed on the assertion and the         *)
(* document is as before; and when the first character after "](" and the  *)
(* spaces is ")", the destination is the empty string, the attempt was     *)
(* committed and the last node of the document is a link or image with     *)
(* the empty destination.                                                  *)
(***************************************************************************)
C15_AbsentDestination ==
    last.proc = WithDestination =>
       LET d     == LinkDestinationParser(subject, last.position + 2)
           start == SkipChars(subject, last.position + 2, {" ", "\n"})
       IN  /\ d.form = "bare" =>
                 (d.value = None <=> NothingRemains(subject, last.position + 2))
           /\ d.value = None =>
                 /\ d.form = "bare"
                 /\ last.exc = "AssertionError"
                 /\ document = last.document
           /\ CharAt(subject, start) = ")" =>
                 /\ d.value = <<>>
                 /\ last.result = "commit"
                 /\ document # <<>>
                 /\ document[Len(document)].kind \in {"reference", "image"}
                 /\ document[Len(document)].uri = <<>>

\* The inline form has failed on "](" followed by spaces only.
C15_Witness ==
    /\ Failed(WithDestination)
    /\ LinkDestinationParser(subject, last.position + 2).value = None
    /\ Len(subject) > last.position + 2

\* The inline form has committed the empty destination of "()".
C15_WitnessEmpty ==
    /\ Committed(WithDestination)
    /\ Slice(subject, last.position, last.position + 3) = <<"]", "(", ")">>


\* The bracket markers of doc that can open.
Openers(doc) == {i \in Markers(doc) : doc[i].can_open}

\* The opener of doc that has no opener after it, 0 when there is none.
Innermost(doc) ==
    IF Openers(doc) = {} THEN 0
    ELSE CHOOSE i \in Openers(doc) : ~\E j \in Openers(doc) : j > i

(***************************************************************************)
(* C16  Innermost-first matching: whenever the unmatched closer or one of  *)
(* the closer forms has changed the document, either there was no opener   *)
(* and a literal "]" was appended, or the one marker that left the         *)
(* document is the opener with no opener after it; every other marker is   *)
(* still a marker at its index with its marker text and position; and a    *)
(* committed closer form has put its link or image at the index of that    *)
(* opener, as the last node.                                               *)
(***************************************************************************)
C16_InnermostFirst ==
    (last.proc \in Closers \cup {Unmatched} /\ document # last.document) =>
       LET o == Innermost(last.document)
       IN  IF o = 0
           THEN /\ last.proc = Unmatched
                /\ document = Append(last.document, Text(<<"]">>))
           ELSE /\ Markers(document) = Markers(last.document) \ {o}
                /\ \A i \in Markers(document) :
                      /\ i < o
                      /\ document[i].marker = last.document[i].marker
                      /\ document[i].position = last.document[i].position
                      /\ document[i].can_open = last.document[i].can_open
                /\ (last.proc \in Closers /\ last.result = "commit") =>
                      /\ Len(document) = o
                      /\ document[o].kind \in {"reference", "image"}
                /\ last.result = "decline" =>
                      document = replace_self(last.document, o,
                                              Text(last.document[o].marker))

\* A closer form has committed against the inner of two openers.
C16_Witness ==
    /\ last.proc \in Closers
    /\ last.result = "commit"
    /\ Cardinality(Openers(last.document)) >= 2
    /\ Markers(document) # {}


(***************************************************************************)
(* C17  Only active openers become nodes: whenever a closer form has       *)
(* committed, the opener it used was active in the document it started     *)
(* from; and whenever the unmatched closer or a closer form has changed a  *)
(* document whose innermost opener was inactive, that opener has become    *)
(* the text of its marker and the document has no more links and images    *)
(* than before.                                                            *)
(***************************************************************************)
C17_OnlyActiveOpenersBecomeNodes ==
    LET o == Innermost(last.document)
        Made(doc) == {i \in 1..Len(doc) : doc[i].kind \in {"reference", "image"}}
    IN  /\ (last.proc \in Closers /\ last.result = "commit") =>
              /\ o # 0
              /\ last.document[o].active
        /\ (/\ last.proc \in Closers \cup {Unmatched}
            /\ o # 0
            /\ ~last.document[o].active
            /\ document # last.document) =>
              /\ document[o] = Text(last.document[o].marker)
              /\ Made(document) = Made(last.document)

\* The shortcut form has run against an inactive opener, after the reference
\* form had converted the active one after it.
C17_Witness ==
    /\ last.proc = Shortcut
    /\ Innermost(last.document) # 0
    /\ ~last.document[Innermost(last.document)].active
    /\ document # last.document


\* What every run leaves: a committed run has moved the position to the
\* right, a declined run has left it where it was, the position is within
\* the text, and the scan of a bare destination from any offset at any depth
\* stops at that offset or after it, within the text.
C18_Progress ==
    /\ last.result = "commit" => position > last.position
    /\ last.result = "decline" => position = last.position
    /\ position <= Len(subject)
    /\ \A i \in 0..Len(subject) : \A parens \in 0..2 :
          BareEnd(subject, i, parens) \in i..Len(subject)
    /\ last.proc = WithDestination =>
          LET d == LinkDestinationParser(subject, last.position + 2)
          IN  d.form = "bare" =>
                 /\ last.position + 2 <= d.start
                 /\ d.start <= d.pos
                 /\ d.pos <= Len(subject)

(***************************************************************************)
(* C18  Progress and termination: in every reachable state the last run,   *)
(* when committed, has moved the position strictly to the right and, when  *)
(* declined, has left it where it was; the position and the scan of a bare *)
(* destination stay within the text; and with the literal fallback every   *)
(* parse eventually has its position at the end of the text.               *)
(***************************************************************************)
C18_ProgressAndTermination == []C18_Progress /\ <>AtEnd

\* A parse has reached the end of the text by committing an inline form
\* whose bare destination was scanned over at least one character.
C18_Witness ==
    /\ AtEnd
    /\ Committed(WithDestination)
    /\ LET d == LinkDestinationParser(subject, last.position + 2)
       IN  d.form = "bare" /\ d.pos > d.start


(***************************************************************************)
(* The sub-parsers on their own: subject is a raw text made of at most     *)
(* DecodeLen pieces, and each action hands it to one sub-parser, as a      *)
(* quoted title, as a bare destination closed by ")" or as a destination   *)
(* in angle brackets.  last records the parser, whether it took the whole  *)
(* raw text, and the value it returned.                                    *)
(***************************************************************************)
DecodeLen == 3

DecodeTokens == {<<"&", "a", "m", "p">>, <<";">>, <<"\\">>, <<"&">>, <<"a">>}

RECURSIVE Flatten(_)
Flatten(ts) == IF ts = <<>> THEN <<>> ELSE Head(ts) \o Flatten(Tail(ts))

RawTexts ==
    {Flatten(ts) : ts \in UNION {[1..n -> DecodeTokens] : n \in 0..DecodeLen}}

DecodeInit ==
    /\ subject \in RawTexts
    /\ position = 0
    /\ document = <<>>
    /\ declined = {}
    /\ entry = <<>>
    /\ last = [proc |-> "none", whole |-> FALSE, value |-> None]

ParseTitle ==
    /\ \E r \in {LinkTitleParser(<<"\"">> \o subject \o <<"\"">>, 0)} :
          /\ position' = r.pos
          /\ last' = [proc |-> "LinkTitleParser",
                      whole |-> r.matched /\ r.pos = Len(subject) + 2,
                      value |-> r.value]
    /\ UNCHANGED <<subject, document, declined, entry>>

ParseBareDestination ==
    /\ \E r \in {LinkDestinationParser(subject \o <<")">>, 0)} :
          /\ position' = r.pos
          /\ last' = [proc |-> "parseBareLinkDestination",
                      whole |-> r.pos = Len(subject),
                      value |-> r.value]
    /\ UNCHANGED <<subject, document, declined, entry>>

ParseAngleDestination ==
    /\ \E r \in {LinkDestinationParser(<<"<">> \o subject \o <<">">>, 0)} :
          /\ position' = r.pos
          /\ last' = [proc |-> "LinkDestinationParser",
                      whole |-> r.pos = Len(subject) + 2,
                      value |-> r.value]
    /\ UNCHANGED <<subject, document, declined, entry>>

DecodeNext ==
    \/ ParseTitle
    \/ ParseBareDestination
    \/ ParseAngleDestination

DecodeSpec == DecodeInit /\ [][DecodeNext]_vars

(***************************************************************************)
(* C19  Decoding order as the claim states it: a title that took the whole *)
(* raw text is the raw text with the backslash escapes removed first and   *)
(* the entities decoded second, and so is a bare destination, before its   *)
(* URI is normalized; a destination in angle brackets is the raw text with *)
(* the entities decoded first, the escapes removed second and the URI      *)
(* normalized last.                                                        *)
(***************************************************************************)
C19_DecodingOrder ==
    last.whole =>
       /\ last.proc = "LinkTitleParser" =>
             last.value = entity_unescape(unescape(subject))
       /\ last.proc = "parseBareLinkDestination" =>
             last.value = normalize_uri(entity_unescape(unescape(subject)))
       /\ last.proc = "LinkDestinationParser" =>
             last.value = normalize_uri(unescape(entity_unescape(subject)))

(***************************************************************************)
(* C19 (amended)  One decoding order for all three: a title that took the  *)
(* whole raw text is the raw text with the entities decoded first and the  *)
(* backslash escapes removed second; a bare destination and a destination  *)
(* in angle brackets are that, with the URI normalized last.               *)
(***************************************************************************)
C19_EntitiesFirst ==
    last.whole =>
       /\ last.proc = "LinkTitleParser" =>
             last.value = unescape(entity_unescape(subject))
       /\ last.proc \in {"parseBareLinkDestination", "LinkDestinationParser"} =>
             last.value = normalize_uri(unescape(entity_unescape(subject)))

\* A title whose raw text becomes an entity reference only once the escape
\* is removed: the two orders differ on it.
C19_Witness ==
    /\ last.proc = "LinkTitleParser"
    /\ last.whole
    /\ subject = <<"&", "a", "m", "p", "\\", ";">>
    /\ last.value = <<"&", "a", "m", "p", ";">>

====
